---- MODULE Spec2Model ----
(***************************************************************************)
(* The cascaded flight controller of Simulation/ctrl.py (class Control),   *)
(* driven tick by tick as quad_sim of Simulation/run_3D_simulation.py      *)
(* drives it.                                                              *)
(*                                                                         *)
(* The source computes in floating point; the model computes in fixed      *)
(* point, every operation rounded to the nearest unit:                     *)
(*   lengths cm, velocities cm/s, accelerations cm/s^2, thrusts and forces *)
(*   cN (0.01 N), angles mrad, angular rates mrad/s, mass g, gains in      *)
(*   hundredths, components of unit vectors and quaternions in thousandths.*)
(* One tick of Control.controller is run stage by stage: pc is the index   *)
(* of the next stage in the stage list of the tick's control mode.         *)
(***************************************************************************)
EXTENDS Integers, Sequences, FiniteSets, TLC

\* ------------------------------------------------------------------------
\* Bounds of the model
\* ------------------------------------------------------------------------

\* Number of controller ticks explored.
MaxTicks == 2

\* ------------------------------------------------------------------------
\* Fixed-point arithmetic
\* ------------------------------------------------------------------------

Abs(a) == IF a < 0 THEN -a ELSE a

Sign(a) == IF a > 0 THEN 1 ELSE IF a < 0 THEN -1 ELSE 0

Min(a, b) == IF a <= b THEN a ELSE b

Max(a, b) == IF a >= b THEN a ELSE b

\* np.clip(a, lo, hi) = minimum(maximum(a, lo), hi)
Clip(a, lo, hi) == Min(Max(a, lo), hi)

\* a / b rounded to the nearest integer, halves away from zero (b > 0)
RDiv(a, b) == IF a >= 0 THEN (a + b \div 2) \div b
                        ELSE -(((-a) + b \div 2) \div b)

\* gain (in hundredths) times value
Gain(k, a) == RDiv(k * a, 100)

RECURSIVE SqrtSearch(_, _, _)
\* largest r in lo..hi with r*r <= n
SqrtSearch(n, lo, hi) ==
    IF lo >= hi THEN lo
    ELSE LET mid == (lo + hi + 1) \div 2
         IN  IF mid * mid <= n THEN SqrtSearch(n, mid, hi)
                               ELSE SqrtSearch(n, lo, mid - 1)

\* sqrt(n) rounded to the nearest integer (n >= 0)
Sqrt(n) ==
    LET r == SqrtSearch(n, 0, 46340)
    IN  IF n - r * r > r THEN r + 1 ELSE r

\* squared Euclidean norm of a 3-vector, and of its first two components
Norm2(v) == v[1] * v[1] + v[2] * v[2] + v[3] * v[3]

NormXY2(v) == v[1] * v[1] + v[2] * v[2]

\* numpy.linalg.norm
Norm(v) == Sqrt(Norm2(v))

\* numpy.linalg.norm in tenths of a unit
Norm10(v) == Sqrt(100 * Norm2(v))

\* pi in microradians, 2*pi in milliradians
PiMicro == 3141593

TwoPi == 6283

\* degrees to milliradians: x * pi / 180
deg2rad(x) == RDiv(x * PiMicro, 180000)

\* arctan of t (in 1e-5, |t| <= 0.4143) in units of 1e-5 rad, by the series
\* t - t^3/3 + t^5/5 - t^7/7 + t^9/9 - t^11/11
AtanSeries(t) ==
    LET t2  == RDiv(t * t, 100000)
        t3  == RDiv(t * t2, 100000)
        t5  == RDiv(t3 * t2, 100000)
        t7  == RDiv(t5 * t2, 100000)
        t9  == RDiv(t7 * t2, 100000)
        t11 == RDiv(t9 * t2, 100000)
    IN  t - RDiv(t3, 3) + RDiv(t5, 5) - RDiv(t7, 7) + RDiv(t9, 9) - RDiv(t11, 11)

\* arctan(p / q) for 0 <= p <= q, q > 0, in units of 1e-5 rad;
\* arctan(t) = pi/4 - arctan((1 - t) / (1 + t)) above tan(pi/8)
AtanRatio(p, q) ==
    IF 10000 * p <= 4142 * q
    THEN AtanSeries(RDiv(100000 * p, q))
    ELSE 78540 - AtanSeries(RDiv(100000 * (q - p), q + p))

\* numpy.arctan2(y, x) in mrad, in (-pi, pi]
ArcTan2(y, x) ==
    IF x = 0 /\ y = 0 THEN 0
    ELSE LET ax == Abs(x)
             ay == Abs(y)
             first == IF ay <= ax THEN AtanRatio(ay, ax)
                                  ELSE 157080 - AtanRatio(ax, ay)
             half  == IF x >= 0 THEN first ELSE 314159 - first
         IN  IF y >= 0 THEN RDiv(half, 100) ELSE -RDiv(half, 100)

\* sin and cos of x (in 1e-4 rad, |x| <= 1 rad) in units of 1e-4, by their series
SinSeries(x) ==
    LET x2 == RDiv(x * x, 10000)
        x3 == RDiv(x * x2, 10000)
        x5 == RDiv(x3 * x2, 10000)
        x7 == RDiv(x5 * x2, 10000)
        x9 == RDiv(x7 * x2, 10000)
    IN  x - RDiv(x3, 6) + RDiv(x5, 120) - RDiv(x7, 5040) + RDiv(x9, 362880)

CosSeries(x) ==
    LET x2 == RDiv(x * x, 10000)
        x4 == RDiv(x2 * x2, 10000)
        x6 == RDiv(x4 * x2, 10000)
        x8 == RDiv(x6 * x2, 10000)
    IN  10000 - RDiv(x2, 2) + RDiv(x4, 24) - RDiv(x6, 720) + RDiv(x8, 40320)

\* numpy.tan of x (in 1e-4 rad), in thousandths
Tan(x) == RDiv(1000 * SinSeries(x), CosSeries(x))

\* ------------------------------------------------------------------------
\* Gains and limits: the params dictionary and Control.__init__
\* ------------------------------------------------------------------------

\* gains in hundredths, velocity limits in cm/s, tilt in degrees, rates in deg/s
params ==
    [ Px |-> 200, Py |-> 200, Pz |-> 100,
      Pxdot |-> 500, Dxdot |-> 50, Ixdot |-> 500,
      Pydot |-> 500, Dydot |-> 50, Iydot |-> 500,
      Pzdot |-> 400, Dzdot |-> 50, Izdot |-> 500,
      Pphi |-> 800, Ptheta |-> 800, Ppsi |-> 150,
      Pp |-> 150, Dp |-> 4, Pq |-> 150, Dq |-> 4, Pr |-> 100, Dr |-> 10,
      uMax |-> 500, vMax |-> 500, wMax |-> 500,
      tiltMax |-> 50,
      pMax |-> 200, qMax |-> 200, rMax |-> 150 ]

\* self.tiltMax = params["tiltMax"]*deg2rad, in 1e-4 rad
tiltMax == RDiv(params.tiltMax * PiMicro, 18000)

pos_P_gain == <<params.Px, params.Py, params.Pz>>

vel_P_gain == <<params.Pxdot, params.Pydot, params.Pzdot>>

vel_D_gain == <<params.Dxdot, params.Dydot, params.Dzdot>>

vel_I_gain == <<params.Ixdot, params.Iydot, params.Izdot>>

rate_P_gain == <<params.Pp, params.Pq, params.Pr>>

rate_D_gain == <<params.Dp, params.Dq, params.Dr>>

velMax == <<params.uMax, params.vMax, params.wMax>>

velMaxAll == Min(velMax[1], Min(velMax[2], velMax[3]))

rateMax == <<deg2rad(params.pMax), deg2rad(params.qMax), deg2rad(params.rMax)>>

\* setYawWeight: the yaw gain is replaced by the mean of the roll and pitch gains
roll_pitch_gain == (params.Pphi + params.Ptheta) \div 2

att_P_gain == <<params.Pphi, params.Ptheta, roll_pitch_gain>>

\* sample period Ts = 1 / TsInv seconds
TsInv == 200

\* ------------------------------------------------------------------------
\* The vehicle (quad.params): mass in g, gravity in cm/s^2, thrusts in cN
\* ------------------------------------------------------------------------

quadParams == [ mB |-> 50, g |-> 981, minThr |-> 2, maxThr |-> 80, useIntergral |-> 1 ]

\* quad.params["mB"] * a
MulMass(a) == RDiv(quadParams.mB * a, 1000)

\* ------------------------------------------------------------------------
\* State
\* ------------------------------------------------------------------------

VARIABLES
    orient,                  \* config.orient: "NED" or "ENU", fixed for the process
    saturateVel_separately,  \* Control.saturateVel_separately
    traj,                    \* the trajectory: sDes, ctrlType, yawType, omit_yaw_follow, current_heading
    quad,                    \* the vehicle state: pos, vel, vel_dot, omega, omega_dot
    potfld,                  \* the potential field: F_rep, pfVel, pfFor, pfSatFor
    att,                     \* this tick's results of the quaternion routines of utils: qe, e_z
    pos_sp, vel_sp, acc_sp, thrust_sp, thrust_rep_sp, eul_sp, pqr_sp, yawFF,
    thr_int,                 \* velocity-error integral per axis
    rate_sp, rateCtrl, w_cmd, sDesCalc,
    view,                    \* the setpoint fields that are views of traj.sDes (share its memory)
    loc,                     \* local variables of the stages of the running tick
    pc,                      \* 0: no tick running; k > 0: the k-th stage of the tick is next
    trace,                   \* the stages the running (or last) tick has executed, in order
    ticks                    \* ticks completed

vars == << orient, saturateVel_separately, traj, quad, potfld, att,
           pos_sp, vel_sp, acc_sp, thrust_sp, thrust_rep_sp, eul_sp, pqr_sp, yawFF,
           thr_int, rate_sp, rateCtrl, w_cmd, sDesCalc, view, loc, pc, trace, ticks >>

Zero3 == <<0, 0, 0>>

\* ------------------------------------------------------------------------
\* Inputs of a tick
\* ------------------------------------------------------------------------

\* the vehicle holding its setpoint, level and at rest, no obstacle in range
Hover ==
    [ pos_sp |-> <<0, 0, -1000>>, vel |-> Zero3, acc |-> Zero3, thr |-> Zero3,
      eul |-> Zero3, pqr |-> Zero3, yawFF |-> 0,
      pos |-> <<0, 0, -1000>>, qvel |-> Zero3, vel_dot |-> Zero3,
      omega |-> Zero3, omega_dot |-> Zero3,
      F_rep |-> Zero3, pfVel |-> 0, pfFor |-> 0, pfSatFor |-> 0,
      omit |-> 0, qe |-> <<1000, 0, 0, 0>>, e_z |-> <<0, 0, 1000>> ]

\* far from the setpoint and commanded faster than the velocity limit, with an
\* obstacle in range, a yaw feed-forward above the yaw-rate limit and a tilted vehicle
Fast ==
    [ Hover EXCEPT !.pos_sp = <<100, -50, -970>>, !.vel = <<600, 0, -800>>,
                   !.acc = <<50, 0, -30>>, !.eul = <<0, 0, 500>>, !.yawFF = 4000,
                   !.qvel = <<100, 50, -20>>, !.vel_dot = <<10, -10, 5>>,
                   !.omega = <<100, -200, 50>>, !.omega_dot = <<20, 0, -10>>,
                   !.F_rep = <<300, -400, 200>>,
                   !.pfVel = 100, !.pfFor = 50, !.pfSatFor = 20,
                   !.qe = <<600, 0, 800, 0>>, !.e_z = <<0, 600, 800>> ]

Kin(name) ==
    CASE name = "hover"     -> Hover
      \* holding position while sinking at 0.4 m/s
      [] name = "drift"     -> [Hover EXCEPT !.qvel = <<0, 0, 40>>]
      \* velocity commands heading 3.0 rad, -3.1 rad, 3.1 rad
      [] name = "head30"    -> [Hover EXCEPT !.vel = <<-70, 10, 0>>]
      [] name = "headm31"   -> [Hover EXCEPT !.vel = <<-240, -10, 0>>]
      [] name = "head31"    -> [Hover EXCEPT !.vel = <<-240, 10, 0>>]
      [] name = "fast"      -> Fast
      \* the same with the three potential-field gains at zero
      [] name = "fast0"     -> [Fast EXCEPT !.pfVel = 0, !.pfFor = 0, !.pfSatFor = 0]
      \* yaw-follow suppressed
      [] name = "omit"      -> [Fast EXCEPT !.omit = 1]
      \* a large vertical velocity error with the Z thrust inside its limits
      [] name = "windz"     -> [Hover EXCEPT !.qvel = <<0, 0, 1800>>,
                                             !.vel_dot = <<0, 0, -14440>>]
      \* a large horizontal velocity error
      [] name = "windx"     -> [Hover EXCEPT !.vel = <<500, 0, 0>>,
                                             !.qvel = <<-1500, 0, 0>>]
      \* vertical velocity commands that saturate the Z thrust either way
      [] name = "satz_up"   -> [Hover EXCEPT !.vel = <<0, 0, 300>>]
      [] name = "satz_down" -> [Hover EXCEPT !.vel = <<0, 0, -300>>]
      \* a position step with a velocity feed-forward below the limit
      [] name = "posstep"   -> [Hover EXCEPT !.pos_sp = <<100, -50, -970>>,
                                             !.vel = <<20, 10, -5>>]
      \* a slow climb in NED against a large horizontal velocity error: the
      \* horizontal thrust is limited by the thrust left beside the Z thrust
      [] name = "climbturn" -> [Hover EXCEPT !.vel = <<500, 0, -4>>,
                                             !.qvel = <<-1500, 0, 0>>]
      \* an error quaternion with a negative scalar part, the vehicle past
      \* the vertical, a yaw feed-forward below minus the yaw-rate limit
      [] name = "flip"      -> [Hover EXCEPT !.yawFF = -4000,
                                             !.qe = <<-600, 800, 0, 0>>,
                                             !.e_z = <<-600, 0, -800>>]

\* the (control mode, kinematic case) pairs a tick is run with
Inputs ==
    ({"xyz_vel", "xy_vel_z_pos", "xyz_pos"} \X {"hover", "fast", "fast0"})
    \cup ({"xyz_pos"} \X {"head30", "headm31", "head31", "omit", "posstep"})
    \cup ({"xy_vel_z_pos"} \X {"windz", "satz_down", "posstep"})
    \cup ({"xyz_vel"} \X {"drift", "windx", "satz_up", "flip", "climbturn"})

\* the 19-slot desired-state vector traj.sDes
sDesOf(k) ==
    [ pos |-> k.pos_sp, vel |-> k.vel, acc |-> k.acc, thr |-> k.thr,
      eul |-> k.eul, pqr |-> k.pqr, yawFF |-> k.yawFF ]

\* ------------------------------------------------------------------------
\* Control.controller: mode dispatch
\* ------------------------------------------------------------------------

\* a dispatch whose FULL_POSITION branch saturates only once, before the
\* potential-field velocity is added
StagesSaturateOnce(ctrlType) ==
    <<"load">> \o
    ( CASE ctrlType = "xyz_vel" ->
             << "saturateVel", "z_vel_control", "xy_vel_control",
                "thrustToAttitude", "attitude_control", "rate_control" >>
        [] ctrlType = "xy_vel_z_pos" ->
             << "z_pos_control", "saturateVel", "z_vel_control", "xy_vel_control",
                "thrustToAttitude", "attitude_control", "rate_control" >>
        [] ctrlType = "xyz_pos" ->
             << "z_pos_control", "xy_pos_control", "saturateVel", "addFrepToVel",
                "yaw_follow", "z_vel_control", "xy_vel_control",
                "thrustToAttitude", "attitude_control", "rate_control" >> )
    \o <<"mixer">>

\* the stages of one call of controller, in the order of its statements: the
\* setpoint loader, the branch of the control mode, the mixer call
Stages(ctrlType) ==
    <<"load">> \o
    ( CASE ctrlType = "xyz_vel" ->
             << "saturateVel", "z_vel_control", "xy_vel_control",
                "thrustToAttitude", "attitude_control", "rate_control" >>
        [] ctrlType = "xy_vel_z_pos" ->
             << "z_pos_control", "saturateVel", "z_vel_control", "xy_vel_control",
                "thrustToAttitude", "attitude_control", "rate_control" >>
        [] ctrlType = "xyz_pos" ->
             << "z_pos_control", "xy_pos_control", "saturateVel", "addFrepToVel",
                "saturateVel", "yaw_follow", "z_vel_control", "xy_vel_control",
                "thrustToAttitude", "attitude_control", "rate_control" >> )
    \o <<"mixer">>

\* the stage the running tick executes next ("" when no tick is running)
Stage == IF pc = 0 THEN "" ELSE Stages(traj.ctrlType)[pc]

\* the stage executed last in the running tick
LastStage == IF trace = <<>> THEN "" ELSE trace[Len(trace)]

\* control passes to the next stage
Advance ==
    /\ pc' = pc + 1
    /\ trace' = Append(trace, Stage)
    /\ ticks' = ticks

\* ------------------------------------------------------------------------
\* Memory shared between traj.sDes and the setpoint fields
\* ------------------------------------------------------------------------

\* a loader that binds the fields to slices of traj.sDes (self.x = traj.sDes[a:b])
LoaderViewsByRef == {"pos_sp", "vel_sp", "acc_sp", "thrust_sp", "eul_sp", "pqr_sp"}

\* the fields the loader leaves as views of traj.sDes: none, every
\* self.x[:] = traj.sDes[a:b] copies the slots into the controller's own array
LoaderViews == {}

\* the slot of traj.sDes a setpoint field is loaded from
Slot(f) ==
    CASE f = "pos_sp" -> "pos" [] f = "vel_sp" -> "vel" [] f = "acc_sp" -> "acc"
      [] f = "thrust_sp" -> "thr" [] f = "eul_sp" -> "eul" [] f = "pqr_sp" -> "pqr"

\* traj.sDes after an in-place write of val to field f
WriteSlot(f, val) ==
    IF f \in view THEN [traj.sDes EXCEPT ![Slot(f)] = val] ELSE traj.sDes

\* ------------------------------------------------------------------------
\* The stages, as functions of the state they read
\* ------------------------------------------------------------------------

\* a Z position loop that assigns (=) where the source adds (+=)
ZPosControlAssign(v, psp, pos) ==
    [v EXCEPT ![3] = Gain(pos_P_gain[3], psp[3] - pos[3])]

\* z_pos_control: vel_sp[2] += pos_P_gain[2]*(pos_sp[2] - quad.pos[2])
ZPosControl(v, psp, pos) ==
    [v EXCEPT ![3] = v[3] + Gain(pos_P_gain[3], psp[3] - pos[3])]

\* xy_pos_control: vel_sp[0:2] += pos_P_gain[0:2]*(pos_sp[0:2] - quad.pos[0:2])
XYPosControl(v, psp, pos) ==
    [v EXCEPT ![1] = v[1] + Gain(pos_P_gain[1], psp[1] - pos[1]),
              ![2] = v[2] + Gain(pos_P_gain[2], psp[2] - pos[2])]

\* saturateVel, global mode: whether the velocity setpoint is scaled down
OverSpeed(v) == Norm2(v) > velMaxAll * velMaxAll

\* a saturation that clamps per axis whatever the configuration
SaturateVelPerAxis(v, separately) ==
    [i \in 1..3 |-> Clip(v[i], -velMax[i], velMax[i])]

\* saturateVel
SaturateVel(v, separately) ==
    IF separately
    THEN [i \in 1..3 |-> Clip(v[i], -velMax[i], velMax[i])]
    ELSE IF OverSpeed(v)
         THEN LET totalVel_sp == Norm10(v)
              IN  [i \in 1..3 |-> RDiv(v[i] * velMaxAll * 10, totalVel_sp)]
         ELSE v

\* addFrepToVel: vel_sp += potfld.pfVel*potfld.F_rep
AddFrepToVel(v, pf) == [i \in 1..3 |-> v[i] + Gain(pf.pfVel, pf.F_rep[i])]

\* a yaw-follow that does not read traj.omit_yaw_follow
YawFollowIgnoreOmit(yawType, omit, v) ==
    /\ yawType = 4
    /\ Norm2(v) > 10 * 10

\* yaw_follow: whether the stage generates the yaw setpoint and feed-forward
YawFollowActive(yawType, omit, v) ==
    /\ yawType = 4
    /\ omit = 0
    /\ Norm2(v) > 10 * 10

\* an unwrap on any change of sign, without the test of the difference
UnwrapAlways(heading, yaw) ==
    IF Sign(yaw) - Sign(heading) # 0 THEN heading + Sign(yaw) * TwoPi ELSE heading

\* yaw_follow: the heading the new yaw is differenced against
Unwrap(heading, yaw) ==
    IF /\ Sign(yaw) - Sign(heading) # 0
       /\ 1000 * Abs(yaw - heading) >= 2 * PiMicro - 100000
    THEN heading + Sign(yaw) * TwoPi
    ELSE heading

\* the frame-remapped Z thrust limits
uMax == IF orient = "NED" THEN -quadParams.minThr ELSE quadParams.maxThr

uMin == IF orient = "NED" THEN -quadParams.maxThr ELSE quadParams.minThr

\* a Z thrust with the gravity term of the ENU frame in either frame
ThrustZSpENU(err, q, asp, int, pf) ==
    Gain(vel_P_gain[3], err) - Gain(vel_D_gain[3], q.vel_dot[3])
    + MulMass(asp[3] + quadParams.g)
    + int[3] + Gain(pf.pfSatFor, pf.F_rep[3])

\* z_vel_control: the unclamped Z thrust setpoint
ThrustZSp(err, q, asp, int, pf) ==
    Gain(vel_P_gain[3], err) - Gain(vel_D_gain[3], q.vel_dot[3])
    + MulMass(IF orient = "NED" THEN asp[3] - quadParams.g ELSE asp[3] + quadParams.g)
    + int[3] + Gain(pf.pfSatFor, pf.F_rep[3])

\* a Z loop without anti-windup
StopIntNever(thrust_z_sp, err) == FALSE

\* z_vel_control: anti-windup in the D direction
StopIntD(thrust_z_sp, err) ==
    \/ (thrust_z_sp >= uMax /\ err >= 0)
    \/ (thrust_z_sp <= uMin /\ err <= 0)

\* vel_I_gain[i]*err*Ts*quad.params["useIntergral"]
IntStep(i, err) == RDiv(vel_I_gain[i] * err * quadParams.useIntergral, 100 * TsInv)

\* a Z integral without its limit
LimitIntNone(x) == x

\* z_vel_control: limit of the thrust integral
LimitInt(x) == Min(Abs(x), quadParams.maxThr) * Sign(x)

\* z_vel_control: the Z integral after the stage
ThrIntZ(int, thrust_z_sp, err) ==
    IF StopIntD(thrust_z_sp, err) THEN int[3]
    ELSE LimitInt(int[3] + IntStep(3, err))

\* xy_vel_control: the unclamped horizontal thrust setpoint
ThrustXYSp(v, q, asp, int, pf) ==
    [i \in 1..2 |->
        Gain(vel_P_gain[i], v[i] - q.vel[i]) - Gain(vel_D_gain[i], q.vel_dot[i])
        + MulMass(asp[i]) + int[i] + Gain(pf.pfSatFor, pf.F_rep[i])]

\* a horizontal limit from the tilt alone, without the excess thrust
ThrustMaxXYTiltOnly(tz) == RDiv(Abs(tz) * Tan(tiltMax), 1000)

\* xy_vel_control: max allowed thrust in NE based on tilt and excess thrust
ThrustMaxXY(tz) ==
    Min(Sqrt(quadParams.maxThr * quadParams.maxThr - tz * tz),
        RDiv(Abs(tz) * Tan(tiltMax), 1000))

\* a horizontal thrust stored without saturation
SaturateXYNone(txy, thrust_max_xy) == txy

\* xy_vel_control: saturate thrust in NE-direction
SaturateXY(txy, thrust_max_xy) ==
    IF txy[1] * txy[1] + txy[2] * txy[2] > thrust_max_xy * thrust_max_xy
    THEN LET mag == Sqrt(txy[1] * txy[1] + txy[2] * txy[2])
         IN  [i \in 1..2 |-> RDiv(txy[i] * thrust_max_xy, mag)]
    ELSE txy

\* xy_vel_control: tracking anti-windup, the integral after the stage
ThrIntXY(int, v, q, txy, tsat) ==
    [i \in 1..3 |->
        IF i = 3 THEN int[3]
        ELSE LET vel_err_lim == (v[i] - q.vel[i])
                                - RDiv((txy[i] - tsat[i]) * 200, vel_P_gain[i])
             IN  int[i] + IntStep(i, vel_err_lim)]

\* a thrust stage that adds the repulsive force whatever the gain pfFor
ThrustRepSpNoGain(t, pf) == [i \in 1..3 |-> t[i] + pf.F_rep[i]]

\* thrustToAttitude: thrust_rep_sp = thrust_sp + potfld.pfFor*potfld.F_rep
ThrustRepSp(t, pf) == [i \in 1..3 |-> t[i] + Gain(pf.pfFor, pf.F_rep[i])]

\* attitude_control: limit yawFF
LimitYawFF(ff) == Clip(ff, -rateMax[3], rateMax[3])

\* a rate setpoint without the final per-axis limit
RateSpNoLimit(qe, e_z, ff) ==
    [i \in 1..3 |->
        RDiv(2 * Sign(qe[1]) * qe[i + 1] * att_P_gain[i], 100)
        + RDiv(e_z[i] * LimitYawFF(ff), 1000)]

\* attitude_control: the rate setpoint from the error quaternion and the yaw
\* feed-forward rotated into the body frame, limited per axis
RateSp(qe, e_z, ff) ==
    [i \in 1..3 |->
        Clip(RDiv(2 * Sign(qe[1]) * qe[i + 1] * att_P_gain[i], 100)
             + RDiv(e_z[i] * LimitYawFF(ff), 1000),
             -rateMax[i], rateMax[i])]

\* rate_control
RateCtrl(rsp, q) ==
    [i \in 1..3 |-> Gain(rate_P_gain[i], rsp[i] - q.omega[i])
                    - Gain(rate_D_gain[i], q.omega_dot[i])]

\* the inputs utils.mixerFM is called with: thrust magnitude and torque demand
MixerInput(trep, rc) == [thr |-> Norm(trep), M |-> rc]

\* ------------------------------------------------------------------------
\* Initial state: Control.__init__, before the first tick
\* ------------------------------------------------------------------------

NoLocals ==
    [ vel_z_error |-> 0, thrust_z_sp |-> 0, thrust_xy_sp |-> <<0, 0>>,
      thrust_max_xy |-> 0, delta_psi |-> 0 ]

Init ==
    /\ orient \in {"NED", "ENU"}
    /\ saturateVel_separately \in BOOLEAN
    /\ traj \in [ sDes : {sDesOf([Hover EXCEPT !.pos_sp = Zero3])},
                  ctrlType : {"xyz_pos"},
                  yawType : {3, 4},
                  omit_yaw_follow : {0},
                  current_heading : {0} ]
    /\ quad = [ pos |-> Hover.pos, vel |-> Zero3, vel_dot |-> Zero3,
                omega |-> Zero3, omega_dot |-> Zero3 ]
    /\ potfld = [ F_rep |-> Zero3, pfVel |-> 0, pfFor |-> 0, pfSatFor |-> 0 ]
    /\ att = [ qe |-> Hover.qe, e_z |-> Hover.e_z ]
    /\ pos_sp = Zero3
    /\ vel_sp = Zero3
    /\ acc_sp = Zero3
    /\ thrust_sp = Zero3
    /\ thrust_rep_sp = Zero3
    /\ eul_sp = Zero3
    /\ pqr_sp = Zero3
    /\ yawFF = 0
    /\ thr_int = Zero3
    /\ rate_sp = Zero3
    /\ rateCtrl = Zero3
    /\ w_cmd = MixerInput(Zero3, Zero3)
    /\ sDesCalc = <<Zero3, Zero3, Zero3, Zero3>>
    /\ view = {}
    /\ loc = NoLocals
    /\ pc = 0
    /\ trace = <<>>
    /\ ticks = 0

\* ------------------------------------------------------------------------
\* Actions
\* ------------------------------------------------------------------------

\* quad_sim up to the call of ctrl.controller: the vehicle, the trajectory and
\* the potential field produce this tick's inputs
quad_sim ==
    /\ pc = 0
    /\ ticks < MaxTicks
    /\ \E in \in Inputs :
         LET k == Kin(in[2])
         IN  /\ traj' = [traj EXCEPT !.sDes = sDesOf(k), !.ctrlType = in[1],
                                     !.omit_yaw_follow = k.omit]
             /\ quad' = [ pos |-> k.pos, vel |-> k.qvel, vel_dot |-> k.vel_dot,
                          omega |-> k.omega, omega_dot |-> k.omega_dot ]
             /\ potfld' = [ F_rep |-> k.F_rep, pfVel |-> k.pfVel, pfFor |-> k.pfFor,
                            pfSatFor |-> k.pfSatFor ]
             /\ att' = [ qe |-> k.qe, e_z |-> k.e_z ]
    /\ pc' = 1
    /\ trace' = <<>>
    /\ UNCHANGED << orient, saturateVel_separately, pos_sp, vel_sp, acc_sp, thrust_sp,
                    thrust_rep_sp, eul_sp, pqr_sp, yawFF, thr_int, rate_sp, rateCtrl,
                    w_cmd, sDesCalc, view, loc, ticks >>

\* the setpoint loader
load ==
    /\ Stage = "load"
    /\ pos_sp' = traj.sDes.pos
    /\ vel_sp' = traj.sDes.vel
    /\ acc_sp' = traj.sDes.acc
    /\ thrust_sp' = traj.sDes.thr
    /\ eul_sp' = traj.sDes.eul
    /\ pqr_sp' = traj.sDes.pqr
    /\ yawFF' = traj.sDes.yawFF
    /\ view' = LoaderViews
    /\ loc' = NoLocals
    /\ Advance
    /\ UNCHANGED << orient, saturateVel_separately, traj, quad, potfld, att,
                    thrust_rep_sp, thr_int, rate_sp, rateCtrl, w_cmd, sDesCalc >>

z_pos_control ==
    /\ Stage = "z_pos_control"
    /\ vel_sp' = ZPosControl(vel_sp, pos_sp, quad.pos)
    /\ traj' = [traj EXCEPT !.sDes = WriteSlot("vel_sp", vel_sp')]
    /\ Advance
    /\ UNCHANGED << orient, saturateVel_separately, quad, potfld, att, pos_sp, acc_sp,
                    thrust_sp, thrust_rep_sp, eul_sp, pqr_sp, yawFF, thr_int, rate_sp,
                    rateCtrl, w_cmd, sDesCalc, view, loc >>

xy_pos_control ==
    /\ Stage = "xy_pos_control"
    /\ vel_sp' = XYPosControl(vel_sp, pos_sp, quad.pos)
    /\ traj' = [traj EXCEPT !.sDes = WriteSlot("vel_sp", vel_sp')]
    /\ Advance
    /\ UNCHANGED << orient, saturateVel_separately, quad, potfld, att, pos_sp, acc_sp,
                    thrust_sp, thrust_rep_sp, eul_sp, pqr_sp, yawFF, thr_int, rate_sp,
                    rateCtrl, w_cmd, sDesCalc, view, loc >>

\* saturateVel assigns a new array to self.vel_sp, except in the global mode
\* below the limit, where it assigns nothing
saturateVel ==
    /\ Stage = "saturateVel"
    /\ vel_sp' = SaturateVel(vel_sp, saturateVel_separately)
    /\ view' = IF saturateVel_separately \/ OverSpeed(vel_sp)
               THEN view \ {"vel_sp"} ELSE view
    /\ Advance
    /\ UNCHANGED << orient, saturateVel_separately, traj, quad, potfld, att, pos_sp,
                    acc_sp, thrust_sp, thrust_rep_sp, eul_sp, pqr_sp, yawFF, thr_int,
                    rate_sp, rateCtrl, w_cmd, sDesCalc, loc >>

addFrepToVel ==
    /\ Stage = "addFrepToVel"
    /\ vel_sp' = AddFrepToVel(vel_sp, potfld)
    /\ traj' = [traj EXCEPT !.sDes = WriteSlot("vel_sp", vel_sp')]
    /\ Advance
    /\ UNCHANGED << orient, saturateVel_separately, quad, potfld, att, pos_sp, acc_sp,
                    thrust_sp, thrust_rep_sp, eul_sp, pqr_sp, yawFF, thr_int, rate_sp,
                    rateCtrl, w_cmd, sDesCalc, view, loc >>

yaw_follow ==
    /\ Stage = "yaw_follow"
    /\ IF YawFollowActive(traj.yawType, traj.omit_yaw_follow, vel_sp)
       THEN LET yaw == ArcTan2(vel_sp[2], vel_sp[1])
                delta_psi == yaw - Unwrap(traj.current_heading, yaw)
            IN  /\ eul_sp' = [eul_sp EXCEPT ![3] = yaw]
                /\ yawFF' = delta_psi * TsInv
                /\ loc' = [loc EXCEPT !.delta_psi = delta_psi]
                /\ traj' = [traj EXCEPT !.current_heading = yaw,
                                        !.sDes = WriteSlot("eul_sp", eul_sp')]
       ELSE UNCHANGED << eul_sp, yawFF, loc, traj >>
    /\ Advance
    /\ UNCHANGED << orient, saturateVel_separately, quad, potfld, att, pos_sp, vel_sp,
                    acc_sp, thrust_sp, thrust_rep_sp, pqr_sp, thr_int, rate_sp,
                    rateCtrl, w_cmd, sDesCalc, view >>

z_vel_control ==
    /\ Stage = "z_vel_control"
    /\ LET vel_z_error == vel_sp[3] - quad.vel[3]
           thrust_z_sp == ThrustZSp(vel_z_error, quad, acc_sp, thr_int, potfld)
       IN  /\ thr_int' = [thr_int EXCEPT ![3] = ThrIntZ(thr_int, thrust_z_sp, vel_z_error)]
           /\ thrust_sp' = [thrust_sp EXCEPT ![3] = Clip(thrust_z_sp, uMin, uMax)]
           /\ loc' = [loc EXCEPT !.vel_z_error = vel_z_error,
                                 !.thrust_z_sp = thrust_z_sp]
    /\ traj' = [traj EXCEPT !.sDes = WriteSlot("thrust_sp", thrust_sp')]
    /\ Advance
    /\ UNCHANGED << orient, saturateVel_separately, quad, potfld, att, pos_sp, vel_sp,
                    acc_sp, thrust_rep_sp, eul_sp, pqr_sp, yawFF, rate_sp, rateCtrl,
                    w_cmd, sDesCalc, view >>

xy_vel_control ==
    /\ Stage = "xy_vel_control"
    /\ LET thrust_xy_sp == ThrustXYSp(vel_sp, quad, acc_sp, thr_int, potfld)
           thrust_max_xy == ThrustMaxXY(thrust_sp[3])
           sat == SaturateXY(thrust_xy_sp, thrust_max_xy)
       IN  /\ thrust_sp' = <<sat[1], sat[2], thrust_sp[3]>>
           /\ thr_int' = ThrIntXY(thr_int, vel_sp, quad, thrust_xy_sp, sat)
           /\ loc' = [loc EXCEPT !.thrust_xy_sp = thrust_xy_sp,
                                 !.thrust_max_xy = thrust_max_xy]
    /\ traj' = [traj EXCEPT !.sDes = WriteSlot("thrust_sp", thrust_sp')]
    /\ Advance
    /\ UNCHANGED << orient, saturateVel_separately, quad, potfld, att, pos_sp, vel_sp,
                    acc_sp, thrust_rep_sp, eul_sp, pqr_sp, yawFF, rate_sp, rateCtrl,
                    w_cmd, sDesCalc, view >>

\* the desired quaternion qd_full is left to the quaternion routines of utils
thrustToAttitude ==
    /\ Stage = "thrustToAttitude"
    /\ thrust_rep_sp' = ThrustRepSp(thrust_sp, potfld)
    /\ Advance
    /\ UNCHANGED << orient, saturateVel_separately, traj, quad, potfld, att, pos_sp,
                    vel_sp, acc_sp, thrust_sp, eul_sp, pqr_sp, yawFF, thr_int, rate_sp,
                    rateCtrl, w_cmd, sDesCalc, view, loc >>

\* the error quaternion qe and the third column of the inverse orientation
\* are results of the quaternion routines of utils
attitude_control ==
    /\ Stage = "attitude_control"
    /\ yawFF' = LimitYawFF(yawFF)
    /\ rate_sp' = RateSp(att.qe, att.e_z, yawFF)
    /\ Advance
    /\ UNCHANGED << orient, saturateVel_separately, traj, quad, potfld, att, pos_sp,
                    vel_sp, acc_sp, thrust_sp, thrust_rep_sp, eul_sp, pqr_sp, thr_int,
                    rateCtrl, w_cmd, sDesCalc, view, loc >>

rate_control ==
    /\ Stage = "rate_control"
    /\ rateCtrl' = RateCtrl(rate_sp, quad)
    /\ Advance
    /\ UNCHANGED << orient, saturateVel_separately, traj, quad, potfld, att, pos_sp,
                    vel_sp, acc_sp, thrust_sp, thrust_rep_sp, eul_sp, pqr_sp, yawFF,
                    thr_int, rate_sp, w_cmd, sDesCalc, view, loc >>

\* the mixer call and the store of the computed desired states, then return
mixer ==
    /\ Stage = "mixer"
    /\ w_cmd' = MixerInput(thrust_rep_sp, rateCtrl)
    /\ sDesCalc' = <<pos_sp, vel_sp, thrust_sp, rate_sp>>
    /\ pc' = 0
    /\ trace' = Append(trace, Stage)
    /\ ticks' = ticks + 1
    /\ UNCHANGED << orient, saturateVel_separately, traj, quad, potfld, att, pos_sp,
                    vel_sp, acc_sp, thrust_sp, thrust_rep_sp, eul_sp, pqr_sp, yawFF,
                    thr_int, rate_sp, rateCtrl, view, loc >>

Next ==
    \/ quad_sim
    \/ load
    \/ z_pos_control
    \/ xy_pos_control
    \/ saturateVel
    \/ addFrepToVel
    \/ yaw_follow
    \/ z_vel_control
    \/ xy_vel_control
    \/ thrustToAttitude
    \/ attitude_control
    \/ rate_control
    \/ mixer

Spec == Init /\ [][Next]_vars

\* ------------------------------------------------------------------------
\* Properties
\* ------------------------------------------------------------------------

\* whether stage s has been executed in the running (or last) tick
InTrace(s) == \E i \in 1..Len(trace) : trace[i] = s

IsPrefix(s, t) == Len(s) <= Len(t) /\ \A i \in 1..Len(s) : s[i] = t[i]

\* the stage sequence the specification lists for each control mode
SpecStages(ctrlType) ==
    CASE ctrlType = "xyz_vel" ->
           << "saturateVel", "z_vel_control", "xy_vel_control",
              "thrustToAttitude", "attitude_control", "rate_control" >>
      [] ctrlType = "xy_vel_z_pos" ->
           << "z_pos_control", "saturateVel", "z_vel_control", "xy_vel_control",
              "thrustToAttitude", "attitude_control", "rate_control" >>
      [] ctrlType = "xyz_pos" ->
           << "z_pos_control", "xy_pos_control", "saturateVel", "addFrepToVel",
              "saturateVel", "yaw_follow", "z_vel_control", "xy_vel_control",
              "thrustToAttitude", "attitude_control", "rate_control" >>

\* C1: in every control mode the stages a tick has executed are, at every
\* point of the tick, a prefix of: the loader, the stage sequence the
\* specification lists for the mode, the mixer call; a finished tick has executed
\* exactly that sequence, so its last three stages before the mixer are
\* thrustToAttitude, attitude_control, rate_control and the mixer runs only
\* after rate_control of the same tick.
C1_StageSequence ==
    LET want == <<"load">> \o SpecStages(traj.ctrlType) \o <<"mixer">>
        n == Len(want)
    IN  /\ IsPrefix(trace, want)
        /\ pc > 0 => Len(trace) = pc - 1
        /\ (pc = 0 /\ ticks > 0) => trace = want
        /\ SubSeq(want, n - 3, n) =
             <<"thrustToAttitude", "attitude_control", "rate_control", "mixer">>
        /\ InTrace("mixer") => trace[Len(trace) - 1] = "rate_control"

\* a FULL_POSITION tick has returned, having run its eleven stages between
\* the loader and the mixer
C1_Witness ==
    /\ pc = 0
    /\ ticks > 0
    /\ traj.ctrlType = "xyz_pos"
    /\ Len(trace) = 13
    /\ trace[6] = "saturateVel"

\* C2 as claimed: all three velocity-error integrals stay within maxThr in
\* magnitude in every reachable state.
C2_AllIntegralsBounded ==
    \A i \in 1..3 : Abs(thr_int[i]) <= quadParams.maxThr

\* C2 as amended: the Z integral stays within maxThr in magnitude in every
\* reachable state (the X and Y integrals have no limit of their own).
C2_ZIntegralBounded == Abs(thr_int[3]) <= quadParams.maxThr

\* the Z integral has been updated and sits at its limit
C2_Witness ==
    /\ InTrace("z_vel_control")
    /\ ~StopIntD(loc.thrust_z_sp, loc.vel_z_error)
    /\ Abs(thr_int[3]) = quadParams.maxThr

\* the case of the specification's yaw-unwrap example: yaw-follow runs with
\* current_heading 3.0 rad and a new yaw of -3.1 rad
C3_ExampleCase ==
    /\ Stage = "yaw_follow"
    /\ traj.yawType = 4
    /\ traj.omit_yaw_follow = 0
    /\ Norm2(vel_sp) > 10 * 10
    /\ traj.current_heading = 3000
    /\ ArcTan2(vel_sp[2], vel_sp[1]) = -3100

\* C3 as claimed: with current_heading 3.0 rad and a new yaw of -3.1 rad the
\* stage adds -2*pi to current_heading before differencing, so that
\* yawFF = (-3.1 - (3.0 - 2*pi)) / Ts.
C3_UnwrapExample ==
    [][C3_ExampleCase => yawFF' = (-3100 - (3000 - TwoPi)) * TsInv]_vars

\* C3 as amended: with current_heading 3.0 rad and a new yaw of -3.1 rad the
\* difference, 6.1 rad, is below 2*pi - 0.1, the stage does not unwrap and
\* yawFF = (-3.1 - 3.0) / Ts; with current_heading 3.1 rad and a new yaw of
\* -3.1 rad (difference 6.2 rad) it adds -2*pi to current_heading before
\* differencing and yawFF = (-3.1 - (3.1 - 2*pi)) / Ts.
C3_UnwrapThreshold ==
    [][ /\ C3_ExampleCase => yawFF' = (-3100 - 3000) * TsInv
        /\ ( /\ Stage = "yaw_follow"
             /\ traj.yawType = 4
             /\ traj.omit_yaw_follow = 0
             /\ Norm2(vel_sp) > 10 * 10
             /\ traj.current_heading = 3100
             /\ ArcTan2(vel_sp[2], vel_sp[1]) = -3100 )
           => yawFF' = (-3100 - (3100 - TwoPi)) * TsInv ]_vars

\* yaw-follow has run from heading 3.0 rad to the new yaw -3.1 rad
C3_Witness ==
    /\ LastStage = "yaw_follow"
    /\ traj.current_heading = -3100
    /\ loc.delta_psi = -6100
    /\ yawFF = -6100 * TsInv

\* C4: in a tick where the unclamped Z thrust setpoint is at or above uMax
\* (NED: -minThr, ENU: maxThr) and the Z velocity error is non-negative, or at
\* or below uMin (NED: -maxThr, ENU: minThr) and the error is non-positive,
\* z_vel_control leaves thr_int[z] unchanged.
C4_ZAntiWindup ==
    [][ Stage = "z_vel_control" =>
          LET err == vel_sp[3] - quad.vel[3]
              thrust_z_sp == ThrustZSp(err, quad, acc_sp, thr_int, potfld)
              hi == IF orient = "NED" THEN -quadParams.minThr ELSE quadParams.maxThr
              lo == IF orient = "NED" THEN -quadParams.maxThr ELSE quadParams.minThr
          IN  /\ (thrust_z_sp >= hi /\ err >= 0) => thr_int'[3] = thr_int[3]
              /\ (thrust_z_sp <= lo /\ err <= 0) => thr_int'[3] = thr_int[3] ]_vars

\* z_vel_control has run with the Z thrust saturated high, a positive error
\* and the integral action enabled
C4_Witness ==
    /\ LastStage = "z_vel_control"
    /\ loc.thrust_z_sp >= uMax
    /\ loc.vel_z_error > 0
    /\ IntStep(3, loc.vel_z_error) > 0

\* the velocity limit holds of v: in the global mode its norm is at most
\* velMaxAll = min(uMax, vMax, wMax), to one unit of rounding; in the per-axis
\* mode each component lies within its axis limit
C5_Limited(v) ==
    IF saturateVel_separately
    THEN \A i \in 1..3 : Abs(v[i]) <= velMax[i]
    ELSE Norm2(v) <= (Min(params.uMax, Min(params.vMax, params.wMax)) + 1)
                     * (Min(params.uMax, Min(params.vMax, params.wMax)) + 1)

\* v has the direction of u, to one unit of rounding in each component
C5_SameDirection(u, v) ==
    /\ \A i \in 1..3 : u[i] * v[i] >= 0
    /\ \A i, j \in 1..3 : Abs(u[i] * v[j] - u[j] * v[i]) <= Abs(u[i]) + Abs(u[j])

\* the stages that follow the last saturateVel of a tick, in every mode
C5_AfterSaturation ==
    { "yaw_follow", "z_vel_control", "xy_vel_control", "thrustToAttitude",
      "attitude_control", "rate_control", "mixer" }

\* C5: every execution of saturateVel leaves vel_sp within the velocity limit
\* and, in the global mode, in its direction (unchanged when it was within
\* the limit); the stages that follow the last saturateVel of a tick read a
\* vel_sp within the limit and do not write it, so the limit holds of the
\* vel_sp the velocity loops consume and at the end of the tick.
C5_VelocitySaturated ==
    [][ /\ Stage = "saturateVel" =>
             /\ C5_Limited(vel_sp')
             /\ ~saturateVel_separately =>
                  /\ C5_SameDirection(vel_sp, vel_sp')
                  /\ Norm2(vel_sp) <= velMaxAll * velMaxAll => vel_sp' = vel_sp
        /\ Stage \in C5_AfterSaturation =>
             /\ C5_Limited(vel_sp)
             /\ vel_sp' = vel_sp ]_vars

\* the second saturateVel of a FULL_POSITION tick has scaled down, in the
\* global mode, a setpoint the potential-field velocity pushed over the limit
C5_Witness ==
    /\ traj.ctrlType = "xyz_pos"
    /\ LastStage = "saturateVel"
    /\ Len(trace) = 6
    /\ ~saturateVel_separately
    /\ potfld.pfVel # 0
    /\ Norm2(vel_sp) >= (velMaxAll - 1) * (velMaxAll - 1)

\* the largest horizontal thrust allowed beside the Z thrust tz: the smaller
\* of |tz| * tan(tiltMax) and sqrt(maxThr^2 - tz^2)
C6_Bound(tz) ==
    LET byTilt == RDiv(Abs(tz) * Tan(RDiv(params.tiltMax * PiMicro, 18000)), 1000)
        byBudget == Sqrt(quadParams.maxThr * quadParams.maxThr - tz * tz)
    IN  IF byTilt <= byBudget THEN byTilt ELSE byBudget

\* C6: after xy_vel_control the horizontal thrust setpoint is within
\* min(|thrust_sp.z| * tan(tiltMax), sqrt(maxThr^2 - thrust_sp.z^2)), to one
\* unit of rounding, thrust_sp.z being the clamped value of z_vel_control; an
\* unclamped horizontal thrust within the bound is stored unchanged, one above
\* it is scaled down to the bound in its own direction.
C6_HorizontalThrustBound ==
    InTrace("xy_vel_control") =>
      LET b == C6_Bound(thrust_sp[3])
          raw == loc.thrust_xy_sp
          out == <<thrust_sp[1], thrust_sp[2]>>
          n2 == out[1] * out[1] + out[2] * out[2]
      IN  /\ thrust_sp[3] = Clip(loc.thrust_z_sp, uMin, uMax)
          /\ n2 <= (b + 1) * (b + 1)
          /\ IF raw[1] * raw[1] + raw[2] * raw[2] <= b * b
             THEN out = raw
             ELSE /\ n2 >= Max(b - 1, 0) * Max(b - 1, 0)
                  /\ raw[1] * out[1] >= 0
                  /\ raw[2] * out[2] >= 0
                  /\ Abs(raw[1] * out[2] - raw[2] * out[1]) <= Abs(raw[1]) + Abs(raw[2])

\* xy_vel_control has scaled a horizontal thrust down to the excess-thrust
\* bound, which was the smaller of the two
C6_Witness ==
    /\ InTrace("xy_vel_control")
    /\ NormXY2(loc.thrust_xy_sp) > C6_Bound(thrust_sp[3]) * C6_Bound(thrust_sp[3])
    /\ C6_Bound(thrust_sp[3]) > 0
    /\ C6_Bound(thrust_sp[3]) < RDiv(Abs(thrust_sp[3]) * Tan(tiltMax), 1000)
    /\ thrust_sp[1] # 0

\* the hover case of the specification: NED frame, z_vel_control has run,
\* pos_sp == pos, loaded vel_sp == 0, acc_sp == 0, zero repulsive force
C7_HoverCase ==
    /\ orient = "NED"
    /\ InTrace("z_vel_control")
    /\ traj.sDes.pos = quad.pos
    /\ traj.sDes.vel = Zero3
    /\ traj.sDes.acc = Zero3
    /\ potfld.F_rep = Zero3

\* C7 as claimed: whenever a tick is run in the hover case, thrust_sp.z equals
\* -mass*g.
C7_HoverThrust ==
    C7_HoverCase => thrust_sp[3] = -RDiv(quadParams.mB * quadParams.g, 1000)

\* C7 as amended: whenever a tick is run in the hover case with the vehicle's
\* vertical velocity and acceleration zero and thr_int[z] zero (and
\* minThr <= mass*g <= maxThr), thrust_sp.z equals -mass*g.
C7_HoverThrustAtRest ==
    ( /\ C7_HoverCase
      /\ quad.vel[3] = 0
      /\ quad.vel_dot[3] = 0
      /\ thr_int[3] = 0
      /\ quadParams.minThr * 1000 <= quadParams.mB * quadParams.g
      /\ quadParams.mB * quadParams.g <= quadParams.maxThr * 1000 )
    => thrust_sp[3] = -RDiv(quadParams.mB * quadParams.g, 1000)

\* a tick has run z_vel_control in the hover case with the vehicle at rest
C7_Witness ==
    /\ C7_HoverCase
    /\ quad.vel = Zero3
    /\ quad.vel_dot = Zero3
    /\ thr_int[3] = 0
    /\ thrust_sp[3] = -49

\* C8: no stage of a tick, in any control mode, modifies traj.sDes: from the
\* call of controller to its return every step leaves it unchanged.
C8_SDesUnchanged ==
    [][pc # 0 => traj'.sDes = traj.sDes]_vars

\* controller has returned with vel_sp, thrust_sp, eul_sp and yawFF all
\* different from the slots of traj.sDes they were loaded from
C8_Witness ==
    /\ pc = 0
    /\ ticks > 0
    /\ pos_sp = traj.sDes.pos
    /\ vel_sp # traj.sDes.vel
    /\ thrust_sp # traj.sDes.thr
    /\ eul_sp # traj.sDes.eul
    /\ yawFF # traj.sDes.yawFF

\* C9: when the position loop of a tick has run, the velocity setpoint that
\* enters saturation is this tick's loaded feed-forward traj.sDes[3:6] plus
\* P * (pos_sp - pos) on each axis the loop covers (z in VELOCITY_WITH_Z_POSITION;
\* x, y and z in FULL_POSITION) and the feed-forward alone on the others,
\* whatever the ticks and modes before.
C9_PositionLoopAdditive ==
    LET ff == traj.sDes.vel
        e == [i \in 1..3 |-> traj.sDes.pos[i] - quad.pos[i]]
    IN  /\ (traj.ctrlType = "xy_vel_z_pos" /\ LastStage = "z_pos_control") =>
              vel_sp = << ff[1], ff[2], ff[3] + RDiv(params.Pz * e[3], 100) >>
        /\ (traj.ctrlType = "xyz_pos" /\ LastStage = "xy_pos_control") =>
              vel_sp = << ff[1] + RDiv(params.Px * e[1], 100),
                          ff[2] + RDiv(params.Py * e[2], 100),
                          ff[3] + RDiv(params.Pz * e[3], 100) >>

\* the position loop of a FULL_POSITION tick has run on a position error and
\* a feed-forward, after a tick that ended with another velocity setpoint
C9_Witness ==
    /\ traj.ctrlType = "xyz_pos"
    /\ LastStage = "xy_pos_control"
    /\ ticks > 0
    /\ traj.sDes.pos # quad.pos
    /\ traj.sDes.vel[3] # 0
    /\ sDesCalc[2] # Zero3
    /\ sDesCalc[2] # traj.sDes.vel

C11_Limit(i) == deg2rad(<<params.pMax, params.qMax, params.rMax>>[i])

\* once the attitude stage of a tick has run, the rate setpoint is inside the
\* per-axis limits and the yaw feed-forward inside the yaw-rate limit
C11_InLimits ==
    InTrace("attitude_control") =>
      /\ \A i \in 1..3 : -C11_Limit(i) <= rate_sp[i] /\ rate_sp[i] <= C11_Limit(i)
      /\ -C11_Limit(3) <= yawFF /\ yawFF <= C11_Limit(3)

\* the attitude stage stores the yaw feed-forward clamped to [-rMax, rMax]
\* and builds the rate setpoint from that clamped value
C11_AttitudeStep ==
    Stage = "attitude_control" =>
      /\ yawFF' = Clip(yawFF, -C11_Limit(3), C11_Limit(3))
      /\ \A i \in 1..3 :
           rate_sp'[i] =
             Clip(RDiv(2 * Sign(att.qe[1]) * att.qe[i + 1] * att_P_gain[i], 100)
                  + RDiv(att.e_z[i] * yawFF', 1000),
                  -C11_Limit(i), C11_Limit(i))

\* C11: after the attitude stage of every tick, in every mode and for every
\* orientation, thrust vector and yaw feed-forward, each component of rate_sp
\* lies in [-rateMax[i], rateMax[i]] (pMax, qMax, rMax), and the yaw
\* feed-forward added to it has first been clamped to [-rMax, rMax].
C11_RateSetpointLimited == [](C11_InLimits) /\ [][C11_AttitudeStep]_vars

\* the attitude stage has run with a yaw feed-forward above the yaw-rate limit
\* and an attitude error asking for more than the pitch-rate limit: the stored
\* feed-forward and the pitch rate sit on their limits, the yaw rate is the
\* clamped feed-forward seen from the tilted body
C11_Witness ==
    /\ LastStage = "attitude_control"
    /\ traj.sDes.yawFF > C11_Limit(3)
    /\ yawFF = C11_Limit(3)
    /\ 2 * att.qe[3] * att_P_gain[2] > 100 * C11_Limit(2)
    /\ rate_sp[2] = C11_Limit(2)
    /\ rate_sp[3] = RDiv(att.e_z[3] * C11_Limit(3), 1000)
    /\ rate_sp[3] < C11_Limit(3)

\* the three potential-field gains are zero
C12_GainsZero == potfld.pfVel = 0 /\ potfld.pfFor = 0 /\ potfld.pfSatFor = 0

\* z_vel_control of the cascade without potential-field coupling: the
\* unclamped Z thrust setpoint
C12_RefThrustZSp(err, q, asp, int) ==
    Gain(vel_P_gain[3], err) - Gain(vel_D_gain[3], q.vel_dot[3])
    + MulMass(IF orient = "NED" THEN asp[3] - quadParams.g ELSE asp[3] + quadParams.g)
    + int[3]

\* xy_vel_control of the cascade without potential-field coupling: the
\* unclamped horizontal thrust setpoint
C12_RefThrustXYSp(v, q, asp, int) ==
    [i \in 1..2 |->
        Gain(vel_P_gain[i], v[i] - q.vel[i]) - Gain(vel_D_gain[i], q.vel_dot[i])
        + MulMass(asp[i]) + int[i]]

\* with the three gains zero, a step of each stage that holds an injection
\* term leaves what the same stage without the term leaves, and the mixer is
\* handed the norm of thrust_sp
C12_Step ==
    C12_GainsZero =>
      /\ Stage = "addFrepToVel" => vel_sp' = vel_sp
      /\ Stage = "z_vel_control" =>
           LET err == vel_sp[3] - quad.vel[3]
               tz == C12_RefThrustZSp(err, quad, acc_sp, thr_int)
           IN  /\ thrust_sp' = [thrust_sp EXCEPT ![3] = Clip(tz, uMin, uMax)]
               /\ thr_int' = [thr_int EXCEPT ![3] = ThrIntZ(thr_int, tz, err)]
      /\ Stage = "xy_vel_control" =>
           LET txy == C12_RefThrustXYSp(vel_sp, quad, acc_sp, thr_int)
               sat == SaturateXY(txy, ThrustMaxXY(thrust_sp[3]))
           IN  /\ thrust_sp' = <<sat[1], sat[2], thrust_sp[3]>>
               /\ thr_int' = ThrIntXY(thr_int, vel_sp, quad, txy, sat)
      /\ Stage = "thrustToAttitude" => thrust_rep_sp' = thrust_sp
      /\ Stage = "mixer" => w_cmd' = [thr |-> Norm(thrust_sp), M |-> rateCtrl]

\* with the three gains zero, thrust_rep_sp == thrust_sp once the thrust
\* stage of the tick has run
C12_NoRepulsion ==
    (C12_GainsZero /\ InTrace("thrustToAttitude")) => thrust_rep_sp = thrust_sp

\* C12: with pfVel, pfFor and pfSatFor all zero, for every repulsive force
\* F_rep, every sequence of ticks and every mode, each stage takes the
\* controller from any state to the state the cascade without the three
\* injection terms takes it to, so that vel_sp, thrust_sp, thrust_rep_sp,
\* thr_int, rate_sp, the torque demand and the mixer inputs are those of a
\* controller with no potential-field coupling; thrust_rep_sp == thrust_sp.
C12_ZeroGainsDecouple == [](C12_NoRepulsion) /\ [][C12_Step]_vars

\* a second FULL_POSITION tick has ended with an obstacle in range and the
\* three gains zero, the velocity setpoint having been saturated and the
\* thrust setpoint being non-zero
C12_Witness ==
    /\ LastStage = "mixer"
    /\ ticks = 2
    /\ traj.ctrlType = "xyz_pos"
    /\ C12_GainsZero
    /\ potfld.F_rep # Zero3
    /\ InTrace("addFrepToVel")
    /\ thrust_rep_sp = thrust_sp
    /\ thrust_sp[1] # 0
    /\ w_cmd.thr = Norm(thrust_sp)

\* the thrust-stage repulsion term pfFor * F_rep
C13_RepTerm == [i \in 1..3 |-> Gain(potfld.pfFor, potfld.F_rep[i])]

\* C13: with 0 <= minThr <= maxThr, at the end of every tick, in both frame
\* conventions and in every mode, thrust_sp.z is inside the frame-remapped
\* [uMin, uMax], norm(thrust_sp) is at most maxThr, and the mixer is handed
\* norm(thrust_rep_sp) with thrust_rep_sp = thrust_sp + pfFor * F_rep and no
\* further limit: when pfFor * F_rep == 0 the thrust magnitude handed to the
\* mixer is at most maxThr.
C13_TotalThrustBound ==
    LastStage = "mixer" =>
      /\ 0 <= quadParams.minThr /\ quadParams.minThr <= quadParams.maxThr
      /\ IF orient = "NED"
         THEN -quadParams.maxThr <= thrust_sp[3] /\ thrust_sp[3] <= -quadParams.minThr
         ELSE quadParams.minThr <= thrust_sp[3] /\ thrust_sp[3] <= quadParams.maxThr
      /\ Norm(thrust_sp) <= quadParams.maxThr
      /\ thrust_rep_sp = [i \in 1..3 |-> thrust_sp[i] + C13_RepTerm[i]]
      /\ w_cmd.thr = Norm(thrust_rep_sp)
      /\ C13_RepTerm = Zero3 => w_cmd.thr <= quadParams.maxThr

\* a tick in the ENU frame has ended with a zero repulsion term, the
\* horizontal thrust scaled down by xy_vel_control to the thrust left beside
\* the Z thrust, and the whole of maxThr handed to the mixer
C13_Witness ==
    /\ LastStage = "mixer"
    /\ orient = "ENU"
    /\ C13_RepTerm = Zero3
    /\ NormXY2(loc.thrust_xy_sp) > NormXY2(thrust_sp)
    /\ loc.thrust_max_xy < RDiv(Abs(thrust_sp[3]) * Tan(tiltMax), 1000)
    /\ thrust_sp[1] # 0
    /\ w_cmd.thr = quadParams.maxThr

\* a tick has ended with a non-zero repulsion term and more than maxThr
\* handed to the mixer
C13_UnlimitedWithRepulsion ==
    /\ LastStage = "mixer"
    /\ C13_RepTerm # Zero3
    /\ w_cmd.thr > quadParams.maxThr

====
